---- MODULE Spec2Model ----
(***************************************************************************)
(* Keyboard-hook behavioural detector: the temporal event extractor        *)
(* (scanner/temporal_analyzer.py) and the risk scoring state machine       *)
(* (scanner/temporal_risk_engine.py), with the settings of                 *)
(* scanner/config.py.                                                      *)
(***************************************************************************)
EXTENDS Integers, Sequences, FiniteSets, TLC

(***************************************************************************)
(* Bounds of the model.                                                    *)
(***************************************************************************)
\* longest event list handed to one update_temporal_risk call
MaxEvents == 2
\* update calls that build the persisted state before the replayed call
SeedCalls == 1
\* number of snapshot files in the snapshot directory
MaxSnaps == 3
\* processes alive during one scan
MaxProcs == 1
\* events handed to each of two overlapping calls of update_temporal_risk
MaxBatch == 1

(***************************************************************************)
(* scanner/config.py                                                       *)
(***************************************************************************)
RISK_DECAY == 5
RISK_MEDIUM_THRESHOLD == 30
RISK_HIGH_THRESHOLD == 60

Kinds == {"SUSPECT_DETECTED", "HOOK_APPEARED", "NEW_HOOK_MODULE", "HOOK_REMOVED"}

EVENT_WEIGHTS ==
    [k \in Kinds |->
        CASE k = "SUSPECT_DETECTED" -> 15
          [] k = "HOOK_APPEARED"    -> 10
          [] k = "NEW_HOOK_MODULE"  -> 35
          [] k = "HOOK_REMOVED"     -> 0 - 10]

ALLOWLIST == {"discord.exe", "signal.exe", "chrome.exe", "msedge.exe",
              "zoom.exe", "teams.exe", "slack.exe", "steam.exe"}

(***************************************************************************)
(* Strings that the code compares or converts.  A snapshot token is a file *)
(* name: a sequence of characters (their code points), ordered as Python   *)
(* orders str, lexicographically.                                          *)
(***************************************************************************)
RECURSIVE StrLess(_, _)
StrLess(a, b) ==
    IF b = << >> THEN FALSE
    ELSE IF a = << >> THEN TRUE
    ELSE IF Head(a) # Head(b) THEN Head(a) < Head(b)
    ELSE StrLess(Tail(a), Tail(b))

StrGreater(a, b) == StrLess(b, a)

\* the empty string, the default of the watermark
NoToken == << >>
\* file names "10" and "2" as code points: "10" < "2" as strings
Tokens == {<<49, 48>>, <<50>>}

\* an executable path: its directory and its last component
Executables ==
    {[dir |-> "C:\\Temp", name |-> "evil.exe"],
     [dir |-> "C:\\Apps", name |-> "Chrome.EXE"]}

\* os.path.basename
Basename(exe) == exe.name

\* str.lower
Lower(s) ==
    CASE s = "Chrome.EXE" -> "chrome.exe"
      [] s = "C:" -> "c:"
      [] s = "Windows" -> "windows"
      [] s = "USER32" -> "user32"
      [] OTHER -> s

CreateTimes == {1}

\* an identity key that also carries the pid
build_identity_with_pid(entry) ==
    <<entry.executable, "|", entry.create_time, "|", entry.pid>>

\* build_identity: executable + "|" + create_time
build_identity(entry) == <<entry.executable, "|", entry.create_time>>

Identities ==
    {build_identity([executable |-> x, create_time |-> c, pid |-> 0]) :
        x \in Executables, c \in CreateTimes}

\* the two identities of the model
EvilId == <<[dir |-> "C:\\Temp", name |-> "evil.exe"], "|", 1>>
ChromeId == <<[dir |-> "C:\\Apps", name |-> "Chrome.EXE"], "|", 1>>

(***************************************************************************)
(* State.                                                                  *)
(***************************************************************************)
VARIABLES
    state,      \* temporal_state.json: [procs: identity -> RiskState, meta: last_snapshot]
    pc,         \* update_temporal_risk: "idle" between calls, "ingest" inside a call
    cur,        \* the state dict the running call works on
    lpt,        \* last_processed_time of the running call
    mx,         \* max_event_time of the running call
    n,          \* number of elements of the events argument consumed so far
    prev,       \* history: temporal_state.json as the latest completed call loaded it
    raw,        \* history: the latest completed call's dict before its decay loop
    ungated,    \* history: per identity and kind, events of the call applied with their weight
    idle,       \* history: the followed identity, its score at its last event, the calls since
    fed,        \* history: the events argument of the running or latest call
    calls,      \* history: number of calls begun, counted up to the replay
    snaps,      \* the snapshot directory: snapshot files in os.listdir order
    out,        \* temporal_events.json
    analyzed,   \* history: the snapshots the latest analyze run that wrote out had loaded
    os_name,    \* os.name of the host: "nt" or "posix"
    artifact,   \* the durable writer at work: "state" (save_state) or "events" (analyze)
    canon,      \* the inode the canonical path names (STATE_FILE or OUTPUT_FILE), 0 when absent
    temp,       \* the inode the sibling temp path names (canonical + ".tmp"), 0 when absent
    ino,        \* the content of every inode: the chunks written so far
    wr,         \* every writer invocation: its position, attempt, open file, lock, outcome
    existed,    \* history: the canonical path has named a complete file
    sfile,      \* temporal_state.json as a document, before a call of update_temporal_risk
    sargs,      \* the events argument of that call
    sout,       \* the outcome of that call: the exception raised, the state returned
    stored,     \* the snapshot directory as files that may be malformed, in os.listdir order
    aout,       \* the outcome of analyze over them: the exception raised, the events written
    system,     \* the processes psutil.process_iter yields during a scan
    report,     \* the list detect_keyboard_hook_suspects returned, once it has run
    persisted,  \* temporal_state.json shared by overlapping calls, and the saves so far
    initial,    \* history: temporal_state.json before the first of these calls
    invocation  \* every overlapping call: its position, events argument, loaded state

engineVars == <<state, pc, cur, lpt, mx, n>>
historyVars == <<prev, raw, ungated, idle, fed, calls>>
analyzerVars == <<snaps, out, analyzed>>
fsVars == <<os_name, artifact, canon, temp, ino, wr, existed>>
loadVars == <<sfile, sargs, sout>>
malVars == <<stored, aout>>
scanVars == <<system, report>>
concVars == <<persisted, initial, invocation>>
envVars == <<fsVars, loadVars, malVars, scanVars, concVars>>
vars == <<engineVars, historyVars, analyzerVars, envVars>>

(***************************************************************************)
(* scanner/temporal_analyzer.py                                            *)
(***************************************************************************)
\* names of the snapshot files, in the order os.listdir returns them
FileNames == <<(<<49, 48>>), (<<50>>), (<<51>>), (<<52>>), (<<53>>)>>

Pids == {1, 2}
Modules == {"a.dll", "b.dll"}

\* the suspect entries a scan can report: a pid, an executable, a create time
\* and the paths of its suspicious modules
Entries ==
    {[pid |-> p, executable |-> x, create_time |-> c, suspicious_modules |-> m] :
        p \in Pids, x \in Executables, c \in CreateTimes, m \in SUBSET Modules}

\* the keyboard_hook_suspects of one scan: each identity at most once, pid 2 and
\* a second module only for the first executable
SuspectLists ==
    LET lone == {e \in Entries : e.executable.name = "evil.exe"}
        ally == {e \in Entries : e.executable.name = "Chrome.EXE" /\ e.pid = 1
                                   /\ "b.dll" \notin e.suspicious_modules}
    IN {<< >>} \cup {<<e>> : e \in lone \cup ally}
               \cup {<<e, f>> : e \in lone, f \in ally}

\* insert a snapshot into a list sorted by timestamp, after its equals
RECURSIVE InsertByTimestamp(_, _)
InsertByTimestamp(sorted, s) ==
    IF sorted = << >> THEN <<s>>
    ELSE IF s.timestamp < Head(sorted).timestamp THEN <<s>> \o sorted
    ELSE <<Head(sorted)>> \o InsertByTimestamp(Tail(sorted), s)

\* snapshots.sort(key=timestamp): stable
RECURSIVE SortByTimestamp(_)
SortByTimestamp(files) ==
    IF files = << >> THEN << >>
    ELSE InsertByTimestamp(SortByTimestamp(SubSeq(files, 1, Len(files) - 1)),
                           files[Len(files)])

\* load_snapshots: the files sorted by timestamp, each as {"time": name, "data": ...}
load_snapshots(files) ==
    LET sorted == SortByTimestamp(files)
    IN [j \in 1..Len(sorted) |-> [time |-> sorted[j].time, data |-> sorted[j].data]]

\* the record analyze appends to history[identity] for entry e of snapshot snap
Observation(snap, e) ==
    [identity |-> build_identity(e), time |-> snap.time, pid |-> e.pid,
     exe |-> e.executable, dlls |-> e.suspicious_modules]

\* the observations of one snapshot, in the order of its entries
SnapObservations(snap) ==
    [j \in 1..Len(snap.data) |-> Observation(snap, snap.data[j])]

\* all observations, in snapshot order
RECURSIVE AllObservations(_)
AllObservations(loaded) ==
    IF loaded = << >> THEN << >>
    ELSE SnapObservations(Head(loaded)) \o AllObservations(Tail(loaded))

\* the keys of history in insertion order
RECURSIVE IdentityOrder(_, _)
IdentityOrder(obs, seen) ==
    IF obs = << >> THEN << >>
    ELSE IF Head(obs).identity \in seen THEN IdentityOrder(Tail(obs), seen)
    ELSE <<Head(obs).identity>>
            \o IdentityOrder(Tail(obs), seen \cup {Head(obs).identity})

\* history[identity]
Timeline(obs, identity) == SelectSeq(obs, LAMBDA r : r.identity = identity)

MakeEvent(kind, identity, r) ==
    [event |-> kind, identity |-> identity, exe |-> r.exe, pid |-> r.pid, time |-> r.time]

\* an appearance check that fires whenever curr has modules and the set changed
HookAppearedOnChange(p, c) == c.dlls # {} /\ c.dlls # p.dlls

\* not prev["dlls"] and curr["dlls"]
HookAppeared(p, c) == p.dlls = {} /\ c.dlls # {}

\* a new-module check that fires on any change of the module set
AnyModuleChange(p, c) == c.dlls # p.dlls

\* curr["dlls"] - prev["dlls"] is not empty
NewHookModule(p, c) == c.dlls \ p.dlls # {}

\* prev["dlls"] - curr["dlls"] is not empty
HookRemoved(p, c) == p.dlls \ c.dlls # {}

\* the events of one consecutive pair (prev, curr)
TransitionEvents(identity, p, c) ==
    (IF HookAppeared(p, c) THEN <<MakeEvent("HOOK_APPEARED", identity, c)>> ELSE << >>)
    \o (IF NewHookModule(p, c) THEN <<MakeEvent("NEW_HOOK_MODULE", identity, c)>> ELSE << >>)
    \o (IF HookRemoved(p, c) THEN <<MakeEvent("HOOK_REMOVED", identity, c)>> ELSE << >>)

\* the loop over range(1, len(records)), from index j on
RECURSIVE PairEvents(_, _, _)
PairEvents(identity, records, j) ==
    IF j > Len(records) THEN << >>
    ELSE TransitionEvents(identity, records[j - 1], records[j])
            \o PairEvents(identity, records, j + 1)

\* a baseline taken from the latest record of the timeline
LatestRecord(records) == records[Len(records)]

\* the record whose SUSPECT_DETECTED is emitted
BaselineRecord(records) == records[1]

\* an identity's events with the baseline after its transitions
IdentityEventsBaselineLast(identity, records) ==
    PairEvents(identity, records, 2)
        \o <<MakeEvent("SUSPECT_DETECTED", identity, BaselineRecord(records))>>

\* the events of one identity: the baseline, then its transitions
IdentityEvents(identity, records) ==
    <<MakeEvent("SUSPECT_DETECTED", identity, BaselineRecord(records))>>
        \o PairEvents(identity, records, 2)

RECURSIVE EventsInOrder(_, _)
EventsInOrder(obs, order) ==
    IF order = << >> THEN << >>
    ELSE IdentityEvents(Head(order), Timeline(obs, Head(order)))
            \o EventsInOrder(obs, Tail(order))

\* the events list analyze builds from the loaded snapshots
BuildEvents(loaded) ==
    LET obs == AllObservations(loaded)
    IN EventsInOrder(obs, IdentityOrder(obs, {}))

\* a scan cycle stores one more snapshot file
Scan(ts, suspects) ==
    /\ Len(snaps) < MaxSnaps
    /\ \A j \in 1..Len(snaps) : snaps[j].timestamp # ts
    /\ snaps' = Append(snaps, [time |-> FileNames[Len(snaps) + 1],
                              timestamp |-> ts, data |-> suspects])
    /\ UNCHANGED <<out, analyzed, engineVars, historyVars, envVars>>

\* analyze() with fewer than two snapshots: returns, nothing is written
AnalyzeCold ==
    /\ Len(load_snapshots(snaps)) < 2
    /\ UNCHANGED vars

\* analyze(): the events are built and temporal_events.json is replaced
Analyze ==
    /\ Len(load_snapshots(snaps)) >= 2
    /\ out' = BuildEvents(load_snapshots(snaps))
    /\ analyzed' = load_snapshots(snaps)
    /\ UNCHANGED <<snaps, engineVars, historyVars, envVars>>

NextAn ==
    \/ \E ts \in 1..MaxSnaps, suspects \in SuspectLists : Scan(ts, suspects)
    \/ AnalyzeCold
    \/ Analyze

(***************************************************************************)
(* scanner/temporal_risk_engine.py                                         *)
(***************************************************************************)
Max(a, b) == IF a >= b THEN a ELSE b

\* load_state of a missing or unreadable file: {}
EmptyState == [procs |-> << >>, meta |-> NoToken]

\* the events an analyze run can emit; the engine reads event, identity, exe, time
Events ==
    {[event |-> k, identity |-> i, exe |-> i[1], pid |-> 0, time |-> t] :
        k \in Kinds, i \in Identities, t \in Tokens}

\* state.get("_meta", {}).get("last_snapshot", "")
last_processed_time(st) == st.meta

\* the identities that received an event in the running call
Touched == {i \in DOMAIN cur : i \notin DOMAIN state.procs
                \/ cur[i].event_counts # state.procs[i].event_counts}

\* a filter that also passes the events as old as the watermark
PassesFilterInclusive(e, watermark) == ~StrLess(e.time, watermark)

\* the filter: an event is ingested iff its token is strictly newer than the watermark
PassesFilter(e, watermark) == StrGreater(e.time, watermark)

\* a max_event_time that follows the latest event that passed the filter
NextMaxEventTimeLatest(e, watermark, m) ==
    IF PassesFilter(e, watermark) THEN e.time ELSE m

\* max_event_time after the filter loop has seen e
NextMaxEventTime(e, watermark, m) ==
    IF PassesFilter(e, watermark) /\ StrGreater(e.time, m) THEN e.time ELSE m

\* the record of an identity not yet in the state
NewRiskState(e) ==
    [risk_score |-> 0, risk_level |-> "LOW",
     event_counts |-> [k \in Kinds |-> 0], exe |-> e.exe]

\* an allowlist test that skips the lower-casing
IsAllowlistedCaseSensitive(exe) == Basename(exe) \in ALLOWLIST

\* base in ALLOWLIST
IsAllowlisted(exe) == Lower(Basename(exe)) \in ALLOWLIST

\* a baseline test that takes a score of 0 for a baseline
HasBaseLoose(s) == s.event_counts["SUSPECT_DETECTED"] > 0 \/ s.risk_score >= 0

\* has_base, read after event_counts was incremented
HasBase(s) == s.event_counts["SUSPECT_DETECTED"] > 0 \/ s.risk_score > 0

\* gated
IsGated(etype) == etype \in {"HOOK_APPEARED", "NEW_HOOK_MODULE"}

\* the weight one event adds, s being the record after its count was incremented
EventWeight(s, etype) ==
    IF IsAllowlisted(s.exe) THEN 0
    ELSE IF IsGated(etype) /\ ~HasBase(s) THEN 0
    ELSE EVENT_WEIGHTS[etype]

\* a lookup that starts the identity's record afresh at every event
WithIdentityFresh(procs, e) == (e.identity :> NewRiskState(e)) @@ procs

\* the record of the event's identity, created when the identity is new
WithIdentity(procs, e) ==
    IF e.identity \in DOMAIN procs THEN procs
    ELSE (e.identity :> NewRiskState(e)) @@ procs

\* an addition that clamps the score at 0 after every event
AddWeightClamped(score, weight) == Max(0, score + weight)

\* s["risk_score"] += weight
AddWeight(score, weight) == score + weight

\* one iteration of the ingest loop
ApplyEvent(procs, e) ==
    LET p1 == WithIdentity(procs, e)
        s1 == [p1[e.identity] EXCEPT !.event_counts[e.event] = @ + 1]
        s2 == [s1 EXCEPT !.risk_score = AddWeight(@, EventWeight(s1, e.event))]
    IN [p1 EXCEPT ![e.identity] = s2]

\* a decay without the clamp
DecayUnclamped(score) == score - RISK_DECAY

\* the decay of one score
Decay(score) == Max(0, score - RISK_DECAY)

\* a classification whose HIGH threshold is exclusive
ClassifyStrict(score) ==
    IF score > RISK_HIGH_THRESHOLD THEN "HIGH"
    ELSE IF score >= RISK_MEDIUM_THRESHOLD THEN "MEDIUM"
    ELSE "LOW"

\* the classification of one score
Classify(score) ==
    IF score >= RISK_HIGH_THRESHOLD THEN "HIGH"
    ELSE IF score >= RISK_MEDIUM_THRESHOLD THEN "MEDIUM"
    ELSE "LOW"

\* a decay loop that visits only the identities touched in this call
DecayTouchedOnly(procs) == Touched

\* the identities the decay loop visits: every key but "_meta"
DecayTargets(procs) == DOMAIN procs

\* the decay and classification loop
DecayAndClassify(procs) ==
    [i \in DOMAIN procs |->
        IF i \in DecayTargets(procs)
        THEN LET sc == Decay(procs[i].risk_score)
             IN [procs[i] EXCEPT !.risk_score = sc, !.risk_level = Classify(sc)]
        ELSE procs[i]]

\* whether the event list applies e with its configured weight
Ungated(procs, e) ==
    LET s1 == [WithIdentity(procs, e)[e.identity] EXCEPT !.event_counts[e.event] = @ + 1]
    IN ~IsAllowlisted(s1.exe) /\ ~(IsGated(e.event) /\ ~HasBase(s1))

NoCounts == [i \in Identities |-> [k \in Kinds |-> 0]]

\* update_temporal_risk is called: load_state, the watermark is read
Load ==
    /\ pc = "idle"
    /\ pc' = "ingest"
    /\ cur' = state.procs
    /\ lpt' = last_processed_time(state)
    /\ mx' = last_processed_time(state)
    /\ n' = 0
    /\ ungated' = NoCounts
    /\ UNCHANGED <<state, prev, raw, idle, analyzerVars, envVars>>

\* the next element e of the events argument: filtered, and ingested if it passes.
\* The filter loop reads only the watermark loaded at the start of the call, so
\* the filter loop and the ingest loop are taken together, element by element.
Ingest(e) ==
    /\ pc = "ingest"
    /\ n < MaxEvents
    /\ n' = n + 1
    /\ mx' = NextMaxEventTime(e, lpt, mx)
    /\ IF PassesFilter(e, lpt)
       THEN /\ cur' = ApplyEvent(cur, e)
            /\ ungated' = IF Ungated(cur, e)
                          THEN [ungated EXCEPT ![e.identity][e.event] = @ + 1]
                          ELSE ungated
       ELSE UNCHANGED <<cur, ungated>>
    /\ UNCHANGED <<state, pc, lpt, prev, raw, idle, analyzerVars, envVars>>

\* the end of the events argument: decay, classification, watermark, save_state
Save ==
    /\ pc = "ingest"
    /\ pc' = "idle"
    /\ state' = [procs |-> DecayAndClassify(cur), meta |-> mx]
    /\ cur' = state'.procs
    /\ lpt' = mx
    /\ mx' = mx
    /\ n' = 0
    /\ prev' = state
    /\ raw' = cur
    /\ UNCHANGED <<ungated, analyzerVars, envVars>>

(***************************************************************************)
(* The durable writers: save_state of temporal_risk_engine.py and the      *)
(* writer that ends analyze in temporal_analyzer.py. Both write the        *)
(* canonical path's sibling temp path and rename it; files are inodes, so  *)
(* that an open file follows its inode through a rename.                   *)
(***************************************************************************)
Writers == {1, 2}

\* max_retries
max_retries == 3

\* what a writer invocation persists: the state or event list it was given
Payload(w) == w

\* the payloads a file can hold: 0 is the one persisted before any writer ran
Payloads == {0} \cup Writers

\* a byte range of a file that no write has filled
Hole == 0 - 1

\* json.dump(obj, f, indent=2): the text reaches the file in two writes
Serialize(v) == <<v, v>>

\* the file is the whole serialization of one payload: json.load succeeds on it
Complete(c) == \E v \in Payloads : c = Serialize(v)

Inodes == 1..(2 + Cardinality(Writers))

\* what a path names: whether a file is there, and its content
FileAt(k, I) == [there |-> k # 0, data |-> IF k = 0 THEN << >> ELSE I[k]]

\* the inodes a path or an open file refers to
Referenced(c, t, W) == ({c, t} \cup {W[w].fd : w \in Writers}) \ {0}

\* an inode that no path and no open file refers to is gone
Sweep(I, c, t, W) ==
    [k \in Inodes |-> IF k \in Referenced(c, t, W) THEN I[k] ELSE << >>]

\* the inode a newly created file gets
FreeInode ==
    CHOOSE k \in Inodes :
        /\ k \notin Referenced(canon, temp, wr)
        /\ \A j \in 1..(k - 1) : j \in Referenced(canon, temp, wr)

\* another invocation holds the lock on the file w has open
LockedByOther(w) ==
    \E v \in Writers \ {w} : wr[v].fd = wr[w].fd /\ wr[v].held

\* msvcrt.locking locks the first byte against the writes of other handles
LockViolation(w) == os_name = "nt" /\ wr[w].off = 0 /\ LockedByOther(w)

\* os.remove and os.rename of the path naming inode k succeed: always on
\* posix; on nt only while no other invocation has the file open
CanUnlink(w, k) ==
    os_name = "posix" \/ \A v \in Writers \ {w} : wr[v].fd # k

\* f.write at offset o
WriteAt(c, o, v) ==
    IF o < Len(c) THEN [c EXCEPT ![o + 1] = v]
    ELSE [j \in 1..(o + 1) |->
            IF j <= Len(c) THEN c[j] ELSE IF j = o + 1 THEN v ELSE Hole]

IdleWriter ==
    [pc |-> "idle", attempt |-> 0, fd |-> 0, off |-> 0, held |-> FALSE,
     exc |-> "none", ran |-> FALSE, before |-> FileAt(0, << >>)]

\* the invocation has ended: returned (exc "none"), raised exc, or was killed
Returned(w, e) == [IdleWriter EXCEPT !.exc = e, !.ran = TRUE]

\* the cleanup of the except IOError handler: os.path.exists, os.remove, a
\* failure of os.remove is passed over
TempAfterCleanup(w) == IF temp # 0 /\ CanUnlink(w, temp) THEN 0 ELSE temp

nonFsVars == <<engineVars, historyVars, analyzerVars, loadVars, malVars, scanVars, concVars>>

\* save_state, or the writer of analyze, is entered
Start(w) ==
    /\ wr[w].pc = "idle"
    /\ wr' = [wr EXCEPT ![w] = [IdleWriter EXCEPT !.pc = "open", !.ran = TRUE,
                                                  !.before = FileAt(canon, ino)]]
    /\ UNCHANGED <<os_name, artifact, canon, temp, ino, existed, nonFsVars>>

\* open(temp_file, "w"): the file is created, or truncated where it is
OpenTemp(w) ==
    /\ wr[w].pc = "open"
    /\ LET k == IF temp = 0 THEN FreeInode ELSE temp
       IN /\ temp' = k
          /\ ino' = [ino EXCEPT ![k] = << >>]
          /\ wr' = [wr EXCEPT ![w].pc = "lock", ![w].fd = k, ![w].off = 0]
    /\ UNCHANGED <<os_name, artifact, canon, existed, nonFsVars>>

\* except PermissionError: the with block has closed the file. save_state
\* sleeps and tries again, and re-raises at the last attempt, outside the try
\* whose handler removes the temp file. analyze calls time.sleep without having
\* imported time: a NameError, which its except IOError does not catch; its
\* re-raise at the last attempt is inside the try whose handler cleans up.
OnPermissionError(w) ==
    /\ IF wr[w].attempt < max_retries - 1
       THEN IF artifact = "state"
            THEN /\ wr' = [wr EXCEPT ![w].pc = "open", ![w].attempt = @ + 1,
                                     ![w].fd = 0, ![w].off = 0, ![w].held = FALSE]
                 /\ temp' = temp
            ELSE /\ wr' = [wr EXCEPT ![w] = Returned(w, "NameError")]
                 /\ temp' = temp
       ELSE IF artifact = "state"
            THEN /\ wr' = [wr EXCEPT ![w] = Returned(w, "PermissionError")]
                 /\ temp' = temp
            ELSE /\ wr' = [wr EXCEPT ![w] = Returned(w, "PermissionError")]
                 /\ temp' = TempAfterCleanup(w)
    /\ ino' = Sweep(ino, canon, temp', wr')
    /\ UNCHANGED <<os_name, artifact, canon, existed, nonFsVars>>

\* open raises PermissionError
OpenDenied(w) ==
    /\ wr[w].pc = "open"
    /\ OnPermissionError(w)

\* the lock: fcntl.flock waits for the holder; msvcrt.locking gives up with an
\* OSError when the byte stays locked, and the writer goes on without the lock
Lock(w) ==
    /\ wr[w].pc = "lock"
    /\ os_name = "posix" => ~LockedByOther(w)
    /\ wr' = [wr EXCEPT ![w].pc = "write", ![w].held = ~LockedByOther(w)]
    /\ UNCHANGED <<os_name, artifact, canon, temp, ino, existed, nonFsVars>>

\* json.dump and f.flush: the next write reaches the file
Write(w) ==
    /\ wr[w].pc = "write"
    /\ ~LockViolation(w)
    /\ ino' = [ino EXCEPT ![wr[w].fd] = WriteAt(@, wr[w].off, Payload(w))]
    /\ wr' = [wr EXCEPT ![w].off = @ + 1,
                        ![w].pc = IF wr[w].off + 1 = Len(Serialize(Payload(w)))
                                  THEN "close" ELSE "write"]
    /\ UNCHANGED <<os_name, artifact, canon, temp, existed, nonFsVars>>

\* a write raises PermissionError: the range is locked by another handle, or
\* the host denies the write
WriteDenied(w) ==
    /\ wr[w].pc = "write"
    /\ OnPermissionError(w)

\* os.fsync, the unlock, the end of the with block
Close(w) ==
    /\ wr[w].pc = "close"
    /\ wr' = [wr EXCEPT ![w].pc = IF os_name = "nt" THEN "exists" ELSE "rename",
                        ![w].fd = 0, ![w].off = 0, ![w].held = FALSE]
    /\ ino' = Sweep(ino, canon, temp, wr')
    /\ UNCHANGED <<os_name, artifact, canon, temp, existed, nonFsVars>>

\* os.path.exists(canonical), on nt
Exists(w) ==
    /\ wr[w].pc = "exists"
    /\ wr' = [wr EXCEPT ![w].pc = IF canon # 0 THEN "remove" ELSE "rename"]
    /\ UNCHANGED <<os_name, artifact, canon, temp, ino, existed, nonFsVars>>

\* os.remove(canonical), on nt. When it fails save_state sleeps and removes
\* again, and the second failure reaches the except IOError handler; analyze
\* calls time.sleep: NameError.
Remove(w) ==
    /\ wr[w].pc = "remove"
    /\ IF canon # 0 /\ CanUnlink(w, canon)
       THEN /\ canon' = 0
            /\ temp' = temp
            /\ wr' = [wr EXCEPT ![w].pc = "rename"]
       ELSE /\ canon' = canon
            /\ temp' = IF artifact = "state" THEN TempAfterCleanup(w) ELSE temp
            /\ wr' = [wr EXCEPT ![w] = Returned(w, IF artifact = "state"
                                                   THEN "OSError" ELSE "NameError")]
    /\ ino' = Sweep(ino, canon', temp', wr')
    /\ UNCHANGED <<os_name, artifact, existed, nonFsVars>>

\* os.rename(temp_file, canonical): it replaces the canonical file on posix;
\* on nt it fails when the canonical file exists. A failure reaches the
\* except IOError handler: cleanup of the temp file, re-raise.
Rename(w) ==
    /\ wr[w].pc = "rename"
    /\ IF temp # 0 /\ (os_name = "posix" \/ (canon = 0 /\ CanUnlink(w, temp)))
       THEN /\ canon' = temp
            /\ temp' = 0
            /\ wr' = [wr EXCEPT ![w] = Returned(w, "none")]
            /\ existed' = (existed \/ Complete(ino[temp]))
       ELSE /\ canon' = canon
            /\ temp' = TempAfterCleanup(w)
            /\ wr' = [wr EXCEPT ![w] = Returned(w, "OSError")]
            /\ existed' = existed
    /\ ino' = Sweep(ino, canon', temp', wr')
    /\ UNCHANGED <<os_name, artifact, nonFsVars>>

\* the process is killed inside the writer: its open file is closed
Crash(w) ==
    /\ wr[w].pc # "idle"
    /\ wr' = [wr EXCEPT ![w] = Returned(w, "crash")]
    /\ ino' = Sweep(ino, canon, temp, wr')
    /\ UNCHANGED <<os_name, artifact, canon, temp, existed, nonFsVars>>

FsIdle ==
    /\ os_name = "posix"
    /\ artifact = "state"
    /\ canon = 0
    /\ temp = 0
    /\ ino = [k \in Inodes |-> << >>]
    /\ wr = [w \in Writers |-> IdleWriter]
    /\ existed = FALSE

(***************************************************************************)
(* scanner/keyboard_hook_detector.py.  A path is a sequence of pieces of    *)
(* text, so that startswith, endswith and the substring test are what they  *)
(* are on str.                                                              *)
(***************************************************************************)
Sep == "\\"

LowerPath(p) == [j \in 1..Len(p) |-> Lower(p[j])]

\* str.startswith
StartsWith(s, pre) == Len(s) >= Len(pre) /\ SubSeq(s, 1, Len(pre)) = pre

\* str.endswith
EndsWith(s, suf) ==
    Len(s) >= Len(suf) /\ SubSeq(s, Len(s) - Len(suf) + 1, Len(s)) = suf

\* x in s, for str
Contains(s, x) ==
    \E j \in 0..(Len(s) - Len(x)) : SubSeq(s, j + 1, j + Len(x)) = x

\* WINDOWS_DIR = os.environ.get("WINDIR", "C:\\Windows").lower()
WINDOWS_DIR == LowerPath(<<"C:", Sep, "Windows">>)

\* the files a process can have mapped: user32.dll and kernel32.dll of the OS
\* directory, a dll in C:\Temp, a dll in C:\Windows.old, a dll in C:\Temp whose
\* name ends in user32.dll, and a mapped file that is no dll
ModulePaths ==
    {<<"C:", Sep, "Windows", Sep, "USER32", ".dll">>,
     <<"C:", Sep, "Windows", Sep, "kernel32", ".dll">>,
     <<"C:", Sep, "temp", Sep, "hook", ".dll">>,
     <<"C:", Sep, "Windows", ".old", Sep, "hook", ".dll">>,
     <<"C:", Sep, "temp", Sep, "x", "user32", ".dll">>,
     <<"C:", Sep, "temp", Sep, "data", ".bin">>}

\* executables: the base name is the last piece
ExePaths ==
    {<<"C:", Sep, "temp", Sep, "evil.exe">>,
     <<"C:", Sep, "Windows", Sep, "notepad.exe">>,
     <<"C:", Sep, "apps", Sep, "Chrome.EXE">>,
     <<"C:", Sep, "Windows", ".old", Sep, "evil.exe">>}

\* proc.info and proc.memory_maps(): exe << >> and create_time 0 stand for
\* values psutil could not resolve, denied for AccessDenied or NoSuchProcess
Processes ==
    {[pid |-> 1, exe |-> x, create_time |-> 1, maps |-> m, denied |-> FALSE] :
        x \in ExePaths, m \in SUBSET ModulePaths}
    \cup {[pid |-> 1, exe |-> x, create_time |-> c, maps |-> {}, denied |-> d] :
        x \in ExePaths \cup {<< >>}, c \in {0, 1}, d \in BOOLEAN}

\* os.path.basename(exe)
PathBasename(p) == p[Len(p)]

\* found_user32: "user32.dll" in pl for some mapped path
found_user32(proc) ==
    \E m \in proc.maps : Contains(LowerPath(m), <<"user32", ".dll">>)

\* suspicious_dlls: pl.endswith(".dll") and not pl.startswith(WINDOWS_DIR)
suspicious_dlls(proc) ==
    {m \in proc.maps : /\ EndsWith(LowerPath(m), <<".dll">>)
                       /\ ~StartsWith(LowerPath(m), WINDOWS_DIR)}

SuspectEntry(proc, type, modules) ==
    [pid |-> proc.pid, executable |-> proc.exe, create_time |-> proc.create_time,
     type |-> type, suspicious_modules |-> modules]

\* the body of the loop over the processes: the entries appended for proc
ScanProcess(proc) ==
    IF proc.exe = << >> \/ proc.create_time = 0 THEN << >>
    ELSE IF Lower(PathBasename(proc.exe)) \in ALLOWLIST THEN << >>
    ELSE IF proc.denied THEN << >>
    ELSE IF ~found_user32(proc) THEN << >>
    ELSE IF suspicious_dlls(proc) # {}
    THEN <<SuspectEntry(proc, "DLL_HOOK_SUSPECT", suspicious_dlls(proc))>>
    ELSE IF StartsWith(LowerPath(proc.exe), WINDOWS_DIR) THEN << >>
    ELSE <<SuspectEntry(proc, "EXE_HOOK_SUSPECT", {})>>

\* detect_keyboard_hook_suspects()
RECURSIVE detect_keyboard_hook_suspects(_)
detect_keyboard_hook_suspects(procs) ==
    IF procs = << >> THEN << >>
    ELSE ScanProcess(Head(procs)) \o detect_keyboard_hook_suspects(Tail(procs))

\* one scan of the system
Detect ==
    /\ ~report.done
    /\ report' = [done |-> TRUE, suspects |-> detect_keyboard_hook_suspects(system)]
    /\ UNCHANGED <<system, engineVars, historyVars, analyzerVars, fsVars, loadVars, malVars, concVars>>

ScanIdle ==
    /\ system = << >>
    /\ report = [done |-> FALSE, suspects |-> << >>]

(***************************************************************************)
(* load_snapshots and analyze over snapshot files that may be malformed.   *)
(***************************************************************************)
\* the fields analyze reads from a suspect entry
Required == {"pid", "executable", "create_time"}

\* the keys a stored entry has: all of them, or all but one
FieldSets == {Required} \cup {Required \ {f} : f \in Required}

\* stored entries of the first executable, and a whole entry of the second
StoredEntries(x) ==
    {[fields |-> fs, pid |-> 1, executable |-> x, create_time |-> 1,
      suspicious_modules |-> m] :
        fs \in IF x.name = "evil.exe" THEN FieldSets ELSE {Required},
        m \in IF x.name = "evil.exe" THEN SUBSET {"a.dll"} ELSE {{"a.dll"}}}

StoredLists ==
    LET lone == UNION {StoredEntries(x) : x \in {y \in Executables : y.name = "evil.exe"}}
        ally == UNION {StoredEntries(x) : x \in {y \in Executables : y.name # "evil.exe"}}
    IN {<< >>} \cup {<<e>> : e \in lone} \cup {<<e, f>> : e \in lone, f \in ally}

\* what a snapshot file holds: text that json.load rejects, a JSON array, or
\* a JSON object with its keyboard_hook_suspects
StoredDocs ==
    {[tag |-> "invalid", suspects |-> << >>], [tag |-> "list", suspects |-> << >>]}
        \cup {[tag |-> "object", suspects |-> l] : l \in StoredLists}

\* the loop over the files: json.JSONDecodeError and IOError skip the file;
\* data.get on a document that is not an object raises AttributeError, which
\* only the except Exception around the whole function catches: return []
load_snapshots_stored(files) ==
    IF \E j \in 1..Len(files) : files[j].doc.tag = "list" THEN << >>
    ELSE LET objects == SelectSeq(files, LAMBDA f : f.doc.tag = "object")
         IN load_snapshots([j \in 1..Len(objects) |->
                [time |-> objects[j].time, timestamp |-> objects[j].timestamp,
                 data |-> objects[j].doc.suspects]])

\* one entry in the timeline loop: skipped without create_time; build_identity
\* subscripts "executable" and the history record subscripts "pid"
EntryFate(e) ==
    IF "create_time" \notin e.fields THEN "skipped"
    ELSE IF "executable" \notin e.fields \/ "pid" \notin e.fields THEN "KeyError"
    ELSE "kept"

\* the snapshots with the entries the timeline loop keeps
KeptEntries(loaded) ==
    [j \in 1..Len(loaded) |->
        [loaded[j] EXCEPT !.data = SelectSeq(@, LAMBDA e : EntryFate(e) = "kept")]]

\* analyze(): what it raises, whether it wrote temporal_events.json, and what
analyze(files) ==
    LET loaded == load_snapshots_stored(files)
    IN  IF Len(loaded) < 2
        THEN [exc |-> "none", wrote |-> FALSE, events |-> << >>]
        ELSE IF \E j \in 1..Len(loaded) : \E k \in 1..Len(loaded[j].data) :
                    EntryFate(loaded[j].data[k]) = "KeyError"
        THEN [exc |-> "KeyError", wrote |-> FALSE, events |-> << >>]
        ELSE [exc |-> "none", wrote |-> TRUE,
              events |-> BuildEvents(KeptEntries(loaded))]

\* a file appears in the snapshot directory
Store(ts, doc) ==
    /\ aout.exc = "pending"
    /\ Len(stored) < MaxSnaps
    /\ \A j \in 1..Len(stored) : stored[j].timestamp # ts
    /\ stored' = Append(stored, [time |-> FileNames[Len(stored) + 1],
                                 timestamp |-> ts, doc |-> doc])
    /\ UNCHANGED <<aout, engineVars, historyVars, analyzerVars, fsVars, loadVars, scanVars, concVars>>

\* analyze() runs over the directory
AnalyzeStored ==
    /\ aout.exc = "pending"
    /\ aout' = analyze(stored)
    /\ UNCHANGED <<stored, engineVars, historyVars, analyzerVars, fsVars, loadVars, scanVars, concVars>>

MalIdle ==
    /\ stored = << >>
    /\ aout = [exc |-> "pending", wrote |-> FALSE, events |-> << >>]

(***************************************************************************)
(* update_temporal_risk as a function of the state file it finds.          *)
(***************************************************************************)
\* a file holding the JSON object of a stored state. meta_ok: "_meta" is absent
\* or an object; recs_ok: every other key maps to an object with the fields of
\* a RiskState.
DictDoc(st, meta_ok, recs_ok) ==
    [tag |-> "dict", st |-> st, meta_ok |-> meta_ok, recs_ok |-> recs_ok]

\* a stored state with one identity and the watermark "10"
SeededState ==
    [procs |-> (EvilId :> [risk_score |-> 10, risk_level |-> "LOW",
                           event_counts |-> [k \in Kinds |->
                               IF k = "SUSPECT_DETECTED" THEN 1 ELSE 0],
                           exe |-> EvilId[1]]),
     meta |-> <<49, 48>>]

\* the state files a call can find: none, one that open cannot read, text that
\* is not JSON, a JSON array, a JSON number, an object whose "_meta" is a
\* number, an object with a record without fields, and well-formed objects
StateFiles ==
    {[tag |-> "absent"], [tag |-> "unreadable"], [tag |-> "invalid"],
     [tag |-> "list"], [tag |-> "number"],
     DictDoc(EmptyState, FALSE, TRUE), DictDoc(SeededState, TRUE, FALSE),
     DictDoc(EmptyState, TRUE, TRUE), DictDoc(SeededState, TRUE, TRUE)}

\* the file is a well-formed identity-to-RiskState mapping
WellFormed(f) == f.tag = "dict" /\ f.meta_ok /\ f.recs_ok

\* load_state: {} when the file is absent, and when open or json.load raise
\* IOError or JSONDecodeError; any other JSON value is returned as it is, after
\* len(state) was evaluated for the debug line
load_state(f) ==
    IF f.tag \in {"absent", "unreadable", "invalid"}
    THEN [exc |-> "none", value |-> DictDoc(EmptyState, TRUE, TRUE)]
    ELSE IF f.tag = "number" THEN [exc |-> "TypeError", value |-> f]
    ELSE [exc |-> "none", value |-> f]

\* the ingest loop over the events argument
RECURSIVE IngestAll(_, _, _, _)
IngestAll(procs, L, j, watermark) ==
    IF j > Len(L) THEN procs
    ELSE IngestAll(IF PassesFilter(L[j], watermark)
                   THEN ApplyEvent(procs, L[j]) ELSE procs,
                   L, j + 1, watermark)

\* the filter loop's max_event_time
RECURSIVE MaxEventTime(_, _, _, _)
MaxEventTime(L, j, watermark, m) ==
    IF j > Len(L) THEN m
    ELSE MaxEventTime(L, j + 1, watermark, NextMaxEventTime(L[j], watermark, m))

\* the call on a loaded well-formed state
RunUpdate(st, L) ==
    [procs |-> DecayAndClassify(IngestAll(st.procs, L, 1, st.meta)),
     meta |-> MaxEventTime(L, 1, st.meta, st.meta)]

Raised(e) == [exc |-> e, state |-> EmptyState]

\* update_temporal_risk(events) on the state file f: what it raises, or the
\* state it saves and returns
update_temporal_risk(f, L) ==
    LET loaded == load_state(f)
        v == loaded.value
    IN  IF loaded.exc # "none" THEN Raised(loaded.exc)
        \* state.get("_meta", {}) on a value that is not a dict
        ELSE IF v.tag # "dict" THEN Raised("AttributeError")
        \* .get("last_snapshot", "") on a "_meta" that is not a dict
        ELSE IF ~v.meta_ok THEN Raised("AttributeError")
        \* s["risk_score"] or s["risk_level"] on a record without the field
        ELSE IF ~v.recs_ok THEN Raised("KeyError")
        ELSE [exc |-> "none", state |-> RunUpdate(v.st, L)]

EventLists == UNION {[1..k -> Events] : k \in 0..MaxEvents}

\* one call of update_temporal_risk on the state file
UpdateOnFile(L) ==
    /\ sout.exc = "pending"
    /\ sargs' = L
    /\ sout' = update_temporal_risk(sfile, L)
    /\ UNCHANGED <<sfile, engineVars, historyVars, analyzerVars, fsVars, malVars, scanVars, concVars>>

LoadIdle ==
    /\ sfile = [tag |-> "absent"]
    /\ sargs = << >>
    /\ sout = [exc |-> "pending", state |-> EmptyState]

(***************************************************************************)
(* Overlapping calls of update_temporal_risk on one state file.  A call    *)
(* reads the file once, in load_state, works on its own dict, and replaces *)
(* the file once, in save_state; nothing is held between the two.          *)
(***************************************************************************)
Callers == {1, 2}

\* the event lists a call can be handed
Batches == UNION {[1..k -> Events] : k \in 0..MaxBatch}

IdleCall == [pc |-> "idle", events |-> << >>, loaded |-> EmptyState, seen |-> 0]

\* update_temporal_risk(events) is entered
Invoke(c, L) ==
    /\ invocation[c].pc = "idle"
    /\ invocation' = [invocation EXCEPT ![c].pc = "load", ![c].events = L]
    /\ UNCHANGED <<persisted, initial, engineVars, historyVars, analyzerVars,
                   fsVars, loadVars, malVars, scanVars>>

\* state = load_state(): the call's own copy of the file as it is now
LoadState(c) ==
    /\ invocation[c].pc = "load"
    /\ invocation' = [invocation EXCEPT ![c].pc = "save",
                                        ![c].loaded = persisted.st,
                                        ![c].seen = persisted.saves]
    /\ UNCHANGED <<persisted, initial, engineVars, historyVars, analyzerVars,
                   fsVars, loadVars, malVars, scanVars>>

\* the filter, ingest and decay loops on the call's copy, then save_state(state)
\* replaces the file with it
SaveState(c) ==
    /\ invocation[c].pc = "save"
    /\ persisted' = [st |-> RunUpdate(invocation[c].loaded, invocation[c].events),
                     saves |-> persisted.saves + 1]
    /\ invocation' = [invocation EXCEPT ![c].pc = "done"]
    /\ UNCHANGED <<initial, engineVars, historyVars, analyzerVars,
                   fsVars, loadVars, malVars, scanVars>>

ConcIdle ==
    /\ persisted = [st |-> EmptyState, saves |-> 0]
    /\ initial = EmptyState
    /\ invocation = [c \in Callers |-> IdleCall]

InitEnv == FsIdle /\ LoadIdle /\ MalIdle /\ ScanIdle /\ ConcIdle

(***************************************************************************)
(* The risk engine, called again and again with any event list, from an    *)
(* absent state file.                                                      *)
(***************************************************************************)
Call == Load /\ UNCHANGED <<fed, calls>>

Feed(e) == Ingest(e) /\ UNCHANGED <<fed, calls>>

Finish == Save /\ UNCHANGED <<idle, fed, calls>>

InitCore ==
    /\ state = EmptyState
    /\ pc = "idle"
    /\ cur = << >>
    /\ lpt = NoToken
    /\ mx = NoToken
    /\ n = 0
    /\ prev = EmptyState
    /\ raw = << >>
    /\ ungated = NoCounts
    /\ idle = [id |-> CHOOSE i \in Identities : TRUE, base |-> 0, k |-> 0]
    /\ fed = << >>
    /\ calls = 0
    /\ snaps = << >>
    /\ out = << >>
    /\ analyzed = << >>

Init == InitCore /\ InitEnv

Next ==
    \/ Call
    \/ \E e \in Events : Feed(e)
    \/ Finish

Spec == Init /\ [][Next]_vars

(***************************************************************************)
(* The same engine, with one identity followed over the calls in which it  *)
(* receives no event: idle.base is its score when those calls began and    *)
(* idle.k their number, no longer counted once base - k * RISK_DECAY is    *)
(* below 0, from where on max(0, base - k * RISK_DECAY) is 0 for every     *)
(* larger k.                                                               *)
(***************************************************************************)
FinishWatched ==
    /\ Save
    /\ idle' = IF idle.id \in Touched
               THEN [idle EXCEPT !.base = state'.procs[idle.id].risk_score, !.k = 0]
               ELSE IF idle.id \notin DOMAIN state.procs THEN idle
               ELSE IF idle.base - idle.k * RISK_DECAY < 0 THEN idle
               ELSE [idle EXCEPT !.k = @ + 1]
    /\ UNCHANGED <<fed, calls>>

InitDecay ==
    /\ state = EmptyState
    /\ pc = "idle"
    /\ cur = << >>
    /\ lpt = NoToken
    /\ mx = NoToken
    /\ n = 0
    /\ prev = EmptyState
    /\ raw = << >>
    /\ ungated = NoCounts
    /\ idle \in {[id |-> i, base |-> 0, k |-> 0] : i \in Identities}
    /\ fed = << >>
    /\ calls = 0
    /\ snaps = << >>
    /\ out = << >>
    /\ analyzed = << >>
    /\ InitEnv

NextDecay ==
    \/ Call
    \/ \E e \in Events : Feed(e)
    \/ FinishWatched

SpecDecay == InitDecay /\ [][NextDecay]_vars

(***************************************************************************)
(* Replay: after at most SeedCalls calls with any event lists, a call with *)
(* any list L and then a second call with the same L.                      *)
(***************************************************************************)
CallSeed == Load /\ calls < SeedCalls /\ calls' = calls + 1 /\ fed' = << >>

CallFirst == Load /\ calls <= SeedCalls /\ calls' = SeedCalls + 1 /\ fed' = << >>

CallAgain == Load /\ calls = SeedCalls + 1 /\ calls' = SeedCalls + 2 /\ fed' = fed

FeedSeed(e) == Ingest(e) /\ calls <= SeedCalls /\ UNCHANGED <<fed, calls>>

FeedFirst(e) ==
    Ingest(e) /\ calls = SeedCalls + 1 /\ fed' = Append(fed, e) /\ calls' = calls

FeedAgain ==
    /\ calls = SeedCalls + 2
    /\ n < Len(fed)
    /\ Ingest(fed[n + 1])
    /\ UNCHANGED <<fed, calls>>

FinishReplay ==
    /\ calls = SeedCalls + 2 => n = Len(fed)
    /\ Save
    /\ UNCHANGED <<idle, fed, calls>>

NextReplay ==
    \/ CallSeed
    \/ CallFirst
    \/ CallAgain
    \/ \E e \in Events : FeedSeed(e)
    \/ \E e \in Events : FeedFirst(e)
    \/ FeedAgain
    \/ FinishReplay

SpecReplay == Init /\ [][NextReplay]_vars

(***************************************************************************)
(* The durable writers on either host, for either artifact, the canonical  *)
(* file absent or persisted before; two invocations may overlap, and an    *)
(* invocation may be killed at any step.                                   *)
(***************************************************************************)
InitFs ==
    /\ InitCore
    /\ LoadIdle
    /\ MalIdle
    /\ ScanIdle
    /\ ConcIdle
    /\ os_name \in {"nt", "posix"}
    /\ artifact \in {"state", "events"}
    /\ canon \in {0, 1}
    /\ temp = 0
    /\ ino = [k \in Inodes |-> IF k = canon THEN Serialize(0) ELSE << >>]
    /\ wr = [w \in Writers |-> IdleWriter]
    /\ existed = (canon # 0)

NextFs ==
    \/ \E w \in Writers : Start(w)
    \/ \E w \in Writers : OpenTemp(w)
    \/ \E w \in Writers : OpenDenied(w)
    \/ \E w \in Writers : Lock(w)
    \/ \E w \in Writers : Write(w)
    \/ \E w \in Writers : WriteDenied(w)
    \/ \E w \in Writers : Close(w)
    \/ \E w \in Writers : Exists(w)
    \/ \E w \in Writers : Remove(w)
    \/ \E w \in Writers : Rename(w)
    \/ \E w \in Writers : Crash(w)

SpecFs == InitFs /\ [][NextFs]_vars

(***************************************************************************)
(* One call of update_temporal_risk with any event list on any state file. *)
(***************************************************************************)
InitLoad ==
    /\ InitCore
    /\ FsIdle
    /\ MalIdle
    /\ ScanIdle
    /\ ConcIdle
    /\ sfile \in StateFiles
    /\ sargs = << >>
    /\ sout = [exc |-> "pending", state |-> EmptyState]

NextLoad == \E L \in EventLists : UpdateOnFile(L)

SpecLoad == InitLoad /\ [][NextLoad]_vars

(***************************************************************************)
(* Any snapshot files, malformed ones among them, then one run of analyze. *)
(***************************************************************************)
NextMal ==
    \/ \E ts \in 1..MaxSnaps, doc \in StoredDocs : Store(ts, doc)
    \/ AnalyzeStored

SpecMal == Init /\ [][NextMal]_vars

(***************************************************************************)
(* One scan of any system of at most MaxProcs processes.                   *)
(***************************************************************************)
InitScan ==
    /\ InitCore
    /\ FsIdle
    /\ LoadIdle
    /\ MalIdle
    /\ ConcIdle
    /\ system \in UNION {[1..k -> Processes] : k \in 0..MaxProcs}
    /\ report = [done |-> FALSE, suspects |-> << >>]

NextScan == Detect

SpecScan == InitScan /\ [][NextScan]_vars

(***************************************************************************)
(* Two calls of update_temporal_risk, each with any batch of events, on a  *)
(* state file that is empty or seeded; their loads and saves interleave in *)
(* every way.                                                              *)
(***************************************************************************)
InitConc ==
    /\ InitCore
    /\ FsIdle
    /\ LoadIdle
    /\ MalIdle
    /\ ScanIdle
    /\ initial \in {EmptyState, SeededState}
    /\ persisted = [st |-> initial, saves |-> 0]
    /\ invocation = [c \in Callers |-> IdleCall]

NextConc ==
    \/ \E c \in Callers, L \in Batches : Invoke(c, L)
    \/ \E c \in Callers : LoadState(c)
    \/ \E c \in Callers : SaveState(c)

SpecConc == InitConc /\ [][NextConc]_vars

(***************************************************************************)
(* The extractor: scans store snapshots, analyze runs over all of them.    *)
(***************************************************************************)
SpecAn == Init /\ [][NextAn]_vars

(***************************************************************************)
(* Properties.                                                             *)
(***************************************************************************)

\* the score of an identity in a state dict, 0 when it is not yet there
ScoreIn(procs, i) == IF i \in DOMAIN procs THEN procs[i].risk_score ELSE 0

\* the events counted for an identity in a state dict
RECURSIVE SumOver(_, _)
SumOver(f, S) ==
    IF S = {} THEN 0
    ELSE LET x == CHOOSE y \in S : TRUE IN f[x] + SumOver(f, S \ {x})

CountIn(procs, i) ==
    IF i \in DOMAIN procs THEN SumOver(procs[i].event_counts, Kinds) ELSE 0

\* C1: idempotent replay. When update_temporal_risk(L) is called a second time
\* with the list L of the call before it, no event of L is ingested: while
\* the second call runs its working dict keeps the identities and the
\* event_counts it loaded, and once it has saved, the identities, every
\* event_counts and the watermark are those the first call saved, and every
\* risk_score is the first call's score less one decay step, clamped at 0.
C1_IdempotentReplay ==
    calls = SeedCalls + 2 =>
        /\ pc = "ingest" =>
              /\ DOMAIN cur = DOMAIN state.procs
              /\ \A i \in DOMAIN cur : cur[i] = state.procs[i]
              /\ mx = state.meta
        /\ pc = "idle" =>
              /\ DOMAIN state.procs = DOMAIN prev.procs
              /\ state.meta = prev.meta
              /\ \A i \in DOMAIN state.procs :
                    /\ state.procs[i].event_counts = prev.procs[i].event_counts
                    /\ state.procs[i].risk_score =
                          IF prev.procs[i].risk_score > RISK_DECAY
                          THEN prev.procs[i].risk_score - RISK_DECAY ELSE 0

\* C1 witness: the replayed call has saved; the first call had ingested a full
\* list on top of a full seed list, and left a positive score.
C1_Witness ==
    /\ calls = SeedCalls + 2
    /\ pc = "idle"
    /\ Len(fed) = MaxEvents
    /\ CountIn(state.procs, EvilId) + CountIn(state.procs, ChromeId)
          = (SeedCalls + 1) * MaxEvents
    /\ ScoreIn(prev.procs, EvilId) > RISK_DECAY

\* C2: non-negativity. Every risk_score of the saved (and returned) state is
\* at least 0, whatever events were ingested.
C2_NonNegative ==
    \A i \in DOMAIN state.procs : state.procs[i].risk_score >= 0

\* C2 witness: a call that ingested HOOK_REMOVED events only, had a negative
\* score before its decay loop and saved the score 0.
C2_Witness ==
    /\ pc = "idle"
    /\ EvilId \in DOMAIN raw
    /\ raw[EvilId].event_counts["HOOK_REMOVED"] >= 1
    /\ CountIn(raw, EvilId) = raw[EvilId].event_counts["HOOK_REMOVED"]
    /\ raw[EvilId].risk_score < 0
    /\ state.procs[EvilId].risk_score = 0

\* C3: gating. When the ingest loop applies one event of kind k to a
\* non-allowlisted identity, a HOOK_APPEARED or NEW_HOOK_MODULE adds its
\* configured weight if the identity had a SUSPECT_DETECTED count of at least
\* 1 or a score above 0 before the event, and adds 0 otherwise; a
\* SUSPECT_DETECTED or HOOK_REMOVED always adds its configured weight.
C3_Gating ==
    [][\A i \in Identities, k \in Kinds :
          (/\ pc = "ingest" /\ pc' = "ingest"
           /\ i \in DOMAIN cur'
           /\ Lower(Basename(i[1])) \notin ALLOWLIST
           /\ cur'[i].event_counts[k] =
                 (IF i \in DOMAIN cur THEN cur[i].event_counts[k] ELSE 0) + 1)
          => cur'[i].risk_score - ScoreIn(cur, i) =
                IF k \in {"HOOK_APPEARED", "NEW_HOOK_MODULE"}
                   /\ ~(\/ (i \in DOMAIN cur /\ cur[i].event_counts["SUSPECT_DETECTED"] >= 1)
                        \/ ScoreIn(cur, i) > 0)
                THEN 0
                ELSE EVENT_WEIGHTS[k]]_vars

\* C3 witness: a HOOK_APPEARED was applied and added 0, then a SUSPECT_DETECTED
\* and a NEW_HOOK_MODULE were applied and added 15 and 35.
C3_Witness ==
    /\ pc = "ingest"
    /\ EvilId \in DOMAIN cur
    /\ cur[EvilId].event_counts =
          [k \in Kinds |-> IF k = "HOOK_REMOVED" THEN 0 ELSE 1]
    /\ cur[EvilId].risk_score = 50

\* C4: decay determinism. An identity that has received no event in the last
\* k update calls has the score max(0, score_0 - k * RISK_DECAY), score_0 being
\* its score when those calls began; from 60 the score is 0 after 12 calls and
\* not before, and a score of 0 has the level LOW.
C4_DecayDeterminism ==
    idle.id \in DOMAIN state.procs =>
        LET s == state.procs[idle.id]
        IN /\ s.risk_score =
                 IF idle.base - idle.k * RISK_DECAY > 0
                 THEN idle.base - idle.k * RISK_DECAY ELSE 0
           /\ idle.base = 60 => (s.risk_score = 0 <=> idle.k >= 12)
           /\ s.risk_score = 0 => s.risk_level = "LOW"

\* C4 witness: the followed identity had the score 60 and has since gone
\* through 12 calls without an event: its score is 0 and its level LOW.
C4_Witness ==
    /\ pc = "idle"
    /\ idle.base = 60
    /\ idle.k = 12
    /\ idle.id \in DOMAIN state.procs
    /\ state.procs[idle.id].risk_score = 0
    /\ state.procs[idle.id].risk_level = "LOW"

\* C5: score update rule. After a completed call, a non-allowlisted identity
\* has risk_score = max(0, old_score + the sum of the weights of its events
\* applied ungated in this call - RISK_DECAY), the decay taken once, and the
\* level that this score classifies to; 40 + 35 - 3 = 72 classifies as HIGH.
C5_ScoreUpdate ==
    /\ pc = "idle" =>
          \A i \in DOMAIN state.procs :
              Lower(Basename(i[1])) \notin ALLOWLIST =>
                  LET sum == SumOver([k \in Kinds |-> ungated[i][k] * EVENT_WEIGHTS[k]],
                                     Kinds)
                      new == ScoreIn(prev.procs, i) + sum - RISK_DECAY
                      res == IF new > 0 THEN new ELSE 0
                  IN /\ state.procs[i].risk_score = res
                     /\ state.procs[i].risk_level =
                           IF res >= 60 THEN "HIGH"
                           ELSE IF res >= 30 THEN "MEDIUM" ELSE "LOW"
    /\ Classify(Max(0, 40 + 35 - 3)) = "HIGH"

\* C5 witness: an identity with a prior SUSPECT_DETECTED and the score 40
\* received one NEW_HOOK_MODULE: the call saved 40 + 35 - RISK_DECAY = 70, HIGH.
C5_Witness ==
    /\ pc = "idle"
    /\ EvilId \in DOMAIN prev.procs
    /\ prev.procs[EvilId].risk_score = 40
    /\ prev.procs[EvilId].event_counts["SUSPECT_DETECTED"] >= 1
    /\ ungated[EvilId] = [k \in Kinds |-> IF k = "NEW_HOOK_MODULE" THEN 1 ELSE 0]
    /\ CountIn(state.procs, EvilId) = CountIn(prev.procs, EvilId) + 1
    /\ state.procs[EvilId].risk_score = 70
    /\ state.procs[EvilId].risk_level = "HIGH"

\* C6: allowlist suppression. An identity whose lower-cased executable base
\* name is in ALLOWLIST has the score 0 at every step of every call, and the
\* score 0 and the level LOW in every saved state, whatever the kinds of its
\* events.
C6_AllowlistSuppression ==
    /\ \A i \in DOMAIN state.procs :
          Lower(Basename(i[1])) \in ALLOWLIST =>
              state.procs[i].risk_score = 0 /\ state.procs[i].risk_level = "LOW"
    /\ \A i \in DOMAIN cur :
          Lower(Basename(i[1])) \in ALLOWLIST => cur[i].risk_score = 0

\* C6 witness: the allowlisted identity has received an event of every kind.
C6_Witness ==
    /\ pc = "idle"
    /\ ChromeId \in DOMAIN state.procs
    /\ \A k \in Kinds : state.procs[ChromeId].event_counts[k] >= 1
    /\ state.procs[ChromeId].risk_score = 0
    /\ state.procs[ChromeId].risk_level = "LOW"

\* C7: threshold classification. Every identity of the saved state has the
\* level HIGH if its score is at least 60, MEDIUM if it is at least 30 and
\* below 60, LOW otherwise; 60 is HIGH and 59 is not.
C7_Thresholds ==
    /\ \A i \in DOMAIN state.procs :
          state.procs[i].risk_level =
              IF state.procs[i].risk_score >= 60 THEN "HIGH"
              ELSE IF state.procs[i].risk_score >= 30 THEN "MEDIUM"
              ELSE "LOW"
    /\ Classify(60) = "HIGH"
    /\ Classify(59) # "HIGH"

\* C7 witness: an identity saved with the score 60 and the level HIGH received
\* no event in the next call, which saved it with 55 and MEDIUM.
C7_Witness ==
    /\ pc = "idle"
    /\ EvilId \in DOMAIN prev.procs
    /\ prev.procs[EvilId].risk_score = 60
    /\ prev.procs[EvilId].risk_level = "HIGH"
    /\ state.procs[EvilId].event_counts = prev.procs[EvilId].event_counts
    /\ state.procs[EvilId].risk_score = 55
    /\ state.procs[EvilId].risk_level = "MEDIUM"

\* the identity key of a suspect entry, as the data model defines it
KeyOf(e) == <<e.executable, "|", e.create_time>>

\* the positions of the loaded snapshots in which identity i is observed
SeenAt(i) ==
    {j \in 1..Len(analyzed) :
        \E m \in 1..Len(analyzed[j].data) : KeyOf(analyzed[j].data[m]) = i}

\* the suspicious modules of identity i in the loaded snapshot j
ModulesAt(i, j) ==
    LET m == CHOOSE q \in 1..Len(analyzed[j].data) : KeyOf(analyzed[j].data[q]) = i
    IN analyzed[j].data[m].suspicious_modules

\* j1 and j2 are consecutive observations of identity i
Consecutive(i, j1, j2) ==
    /\ j1 \in SeenAt(i) /\ j2 \in SeenAt(i) /\ j1 < j2
    /\ \A j \in SeenAt(i) : ~(j1 < j /\ j < j2)

\* how many events of a kind out holds for an identity and a token
Emitted(kind, i, token) ==
    Cardinality({q \in 1..Len(out) :
        out[q].event = kind /\ out[q].identity = i /\ out[q].time = token})

\* C8: transition diff rules. For every consecutive pair (prev, curr) of an
\* identity's timeline, the events written for curr's token hold one
\* HOOK_APPEARED iff prev's module set is empty and curr's is not, one
\* NEW_HOOK_MODULE iff curr minus prev is not empty, one HOOK_REMOVED iff prev
\* minus curr is not empty, and none of a kind otherwise; so identical sets
\* yield no event of the three kinds.
C8_TransitionRules ==
    \A i \in Identities, j1 \in 1..Len(analyzed), j2 \in 1..Len(analyzed) :
        Consecutive(i, j1, j2) =>
            LET P == ModulesAt(i, j1)
                C == ModulesAt(i, j2)
                t == analyzed[j2].time
            IN /\ Emitted("HOOK_APPEARED", i, t) = IF P = {} /\ C # {} THEN 1 ELSE 0
               /\ Emitted("NEW_HOOK_MODULE", i, t) = IF C \ P # {} THEN 1 ELSE 0
               /\ Emitted("HOOK_REMOVED", i, t) = IF P \ C # {} THEN 1 ELSE 0
               /\ Emitted("SUSPECT_DETECTED", i, t) = 0

\* C8 witness: one timeline with the transitions {a.dll} -> {a.dll} (no
\* event) and {a.dll} -> {a.dll, b.dll} (one NEW_HOOK_MODULE and nothing else).
C8_Witness ==
    /\ Len(analyzed) = 3
    /\ Consecutive(EvilId, 1, 2) /\ Consecutive(EvilId, 2, 3)
    /\ ModulesAt(EvilId, 1) = {"a.dll"}
    /\ ModulesAt(EvilId, 2) = {"a.dll"}
    /\ ModulesAt(EvilId, 3) = {"a.dll", "b.dll"}
    /\ \A k \in Kinds : Emitted(k, EvilId, analyzed[2].time) = 0
    /\ Emitted("NEW_HOOK_MODULE", EvilId, analyzed[3].time) = 1
    /\ Emitted("HOOK_APPEARED", EvilId, analyzed[3].time) = 0
    /\ Emitted("HOOK_REMOVED", EvilId, analyzed[3].time) = 0

\* the first loaded snapshot in which identity i is observed
FirstSeen(i) == CHOOSE j \in SeenAt(i) : \A q \in SeenAt(i) : j <= q

\* C9: baseline event. The events of an analyze run hold exactly one
\* SUSPECT_DETECTED for every identity observed in the loaded snapshots, with
\* the token of the first snapshot, in load order, that observes it, and no
\* other event with that identity and token; they hold no event for an
\* identity that is not observed.
C9_Baseline ==
    \A i \in Identities :
        IF SeenAt(i) = {}
        THEN \A q \in 1..Len(out) : out[q].identity # i
        ELSE /\ Cardinality({q \in 1..Len(out) :
                    out[q].event = "SUSPECT_DETECTED" /\ out[q].identity = i}) = 1
             /\ Emitted("SUSPECT_DETECTED", i, analyzed[FirstSeen(i)].time) = 1
             /\ \A k \in Kinds \ {"SUSPECT_DETECTED"} :
                    Emitted(k, i, analyzed[FirstSeen(i)].time) = 0

\* C9 witness: the first loaded snapshot, which is not the first file of the
\* directory listing, has no entries; the second observes an identity with one
\* suspicious module; the events are its SUSPECT_DETECTED alone.
C9_Witness ==
    /\ Len(analyzed) = 2
    /\ analyzed[1].data = << >>
    /\ analyzed[1].time = FileNames[2]
    /\ SeenAt(EvilId) = {2}
    /\ ModulesAt(EvilId, 2) = {"a.dll"}
    /\ Len(out) = 1
    /\ out[1].event = "SUSPECT_DETECTED"
    /\ out[1].identity = EvilId
    /\ out[1].time = analyzed[2].time

\* the loaded snapshots with every pid replaced through the map f
WithPids(loaded, f) ==
    [j \in 1..Len(loaded) |->
        [loaded[j] EXCEPT !.data =
            [m \in 1..Len(loaded[j].data) |->
                [loaded[j].data[m] EXCEPT !.pid = f[loaded[j].data[m].pid]]]]]

\* kind, identity and token of each event of a list
WithoutPid(evs) ==
    [q \in 1..Len(evs) |->
        [event |-> evs[q].event, identity |-> evs[q].identity, time |-> evs[q].time]]

\* C10: identity stability. Every event's identity is executable, "|",
\* create_time of an observed entry, and the kinds, identities and tokens of
\* the events are those analyze builds from the same snapshots with the pids
\* replaced through any map of pids.
C10_IdentityStability ==
    /\ \A q \in 1..Len(out) :
          \E j \in 1..Len(analyzed) : \E m \in 1..Len(analyzed[j].data) :
              out[q].identity = KeyOf(analyzed[j].data[m])
    /\ \A f \in [Pids -> Pids] :
          WithoutPid(out) = WithoutPid(BuildEvents(WithPids(analyzed, f)))

\* C10 witness: an identity is observed under pid 1 and then under pid 2 with
\* one more module; its SUSPECT_DETECTED carries pid 1 and its NEW_HOOK_MODULE
\* pid 2, under one identity.
C10_Witness ==
    /\ \E q \in 1..Len(out) :
          out[q].event = "SUSPECT_DETECTED" /\ out[q].identity = EvilId /\ out[q].pid = 1
    /\ \E q \in 1..Len(out) :
          out[q].event = "NEW_HOOK_MODULE" /\ out[q].identity = EvilId /\ out[q].pid = 2
    /\ Cardinality({q \in 1..Len(out) : out[q].event = "SUSPECT_DETECTED"}) = 1

\* the tokens of the events of the recorded call that passed its filter
ProcessedTokens ==
    {fed[j].time : j \in {k \in 1..Len(fed) : PassesFilter(fed[k], prev.meta)}}

\* the greatest of a non-empty set of tokens under the engine's comparison
MaxToken(S) == CHOOSE t \in S : \A u \in S : ~StrLess(t, u)

\* C11: watermark advance. Once a call of update_temporal_risk has saved, the
\* stored watermark is not less than the watermark the call loaded; for a call
\* whose events argument is recorded, it is the maximum of the loaded
\* watermark and the tokens of the events that passed the filter, and it is
\* the loaded watermark when no event passed.
C11_WatermarkAdvance ==
    pc = "idle" =>
        /\ ~StrLess(state.meta, prev.meta)
        /\ calls > SeedCalls =>
              /\ state.meta = MaxToken(ProcessedTokens \cup {prev.meta})
              /\ ProcessedTokens = {} => state.meta = prev.meta

\* C11 witness: a recorded call loaded the watermark "10", was given an event
\* with the token "10", which the filter dropped, and an event with the token
\* "2", which passed, and saved the watermark "2".
C11_Witness ==
    /\ pc = "idle"
    /\ calls = SeedCalls + 1
    /\ prev.meta = <<49, 48>>
    /\ Len(fed) = 2
    /\ fed[1].time = <<49, 48>>
    /\ fed[2].time = <<50>>
    /\ state.meta = <<50>>

\* C17: monotone history. From one stored state to the next, every identity of
\* the stored state stays in it, and for each identity and each event kind
\* event_counts[kind] does not decrease.
C17_MonotoneHistory ==
    [][\A i \in DOMAIN state.procs :
          /\ i \in DOMAIN state'.procs
          /\ \A k \in Kinds :
                state'.procs[i].event_counts[k] >= state.procs[i].event_counts[k]]_vars

\* C17 witness: the latest call raised a count of one stored identity and had
\* no event for another stored identity, which is still stored with its counts.
C17_Witness ==
    /\ pc = "idle"
    /\ {EvilId, ChromeId} \subseteq DOMAIN prev.procs
    /\ state.procs[EvilId].event_counts["SUSPECT_DETECTED"]
          > prev.procs[EvilId].event_counts["SUSPECT_DETECTED"]
    /\ prev.procs[EvilId].event_counts["SUSPECT_DETECTED"] > 0
    /\ state.procs[ChromeId].event_counts = prev.procs[ChromeId].event_counts
    /\ CountIn(state.procs, ChromeId) > 0

\* C20: no negative intermediate score. At every step inside
\* update_temporal_risk, after each single event is applied and so whenever
\* has_base is evaluated for the next event, every risk_score of the working
\* dict is >= 0.
C20_NoNegativeIntermediate ==
    pc = "ingest" => \A i \in DOMAIN cur : cur[i].risk_score >= 0

\* C12: crash-safe persistence. While invocations of save_state run one at a
\* time, at every point of an invocation and after it was killed or has
\* raised at any of its steps, the canonical state file, once it has existed,
\* is there and holds the whole serialization of the state persisted before
\* or of the state being saved.
C12_CrashSafePersistence ==
    (artifact = "state" /\ ~wr[2].ran /\ existed) =>
        /\ canon # 0
        /\ ino[canon] \in {Serialize(0), Serialize(Payload(1))}

\* C13: readers see only complete writes. Whatever the interleaving of the
\* invocations of a durable writer, which share the sibling temp path, the
\* canonical file, whenever it is there to be read, holds the whole
\* serialization of one payload: the one persisted before or one a writer was
\* given; never a truncated or in-progress file.
C13_ReadersSeeCompleteWrites == canon # 0 => Complete(ino[canon])

\* a step of invocation w in which open or a write raised PermissionError
DeniedStep(w) ==
    /\ wr[w].pc \in {"open", "write"}
    /\ wr'[w] # wr[w]
    /\ \/ wr'[w].pc = "open"
       \/ wr'[w].pc = "idle" /\ wr'[w].exc # "crash"

\* C14: bounded retry with cleanup. In both durable writers, run one invocation
\* at a time, a PermissionError while the temp file is written leads to another
\* attempt as long as fewer than 3 attempts were made; at the third failed
\* attempt the PermissionError is raised to the caller, the temp file is
\* gone, and the canonical file is as it was when the writer was entered.
C14_BoundedRetryWithCleanup ==
    [][(~wr[2].ran /\ DeniedStep(1)) =>
          IF wr[1].attempt < max_retries - 1
          THEN wr'[1].pc = "open" /\ wr'[1].attempt = wr[1].attempt + 1
          ELSE /\ wr'[1].pc = "idle"
               /\ wr'[1].exc = "PermissionError"
               /\ temp' = 0
               /\ FileAt(canon', ino') = wr[1].before]_vars

\* C15: corrupt state is never fatal. When the state file is absent,
\* unreadable, not valid JSON, or valid JSON that is not a well-formed
\* identity-to-RiskState mapping, update_temporal_risk raises nothing and
\* saves what a call with the same events saves from the empty state.
C15_CorruptStateNeverFatal ==
    (sout.exc # "pending" /\ ~WellFormed(sfile)) =>
        /\ sout.exc = "none"
        /\ sout.state = RunUpdate(EmptyState, sargs)

\* the valid part of the directory: the files holding a JSON object, with the
\* entries that have every required field
ValidPart(files) ==
    LET objects == SelectSeq(files, LAMBDA f : f.doc.tag = "object")
    IN [j \in 1..Len(objects) |->
            [time |-> objects[j].time, timestamp |-> objects[j].timestamp,
             data |-> SelectSeq(objects[j].doc.suspects,
                                LAMBDA e : e.fields = Required)]]

\* C16: a malformed snapshot is skipped alone. When analyze has run over a
\* directory with at least two valid snapshots, it has raised nothing and has
\* written the events built from the valid snapshots and their valid entries:
\* only the invalid files and the entries lacking a required field are left out.
C16_MalformedSkippedAlone ==
    (aout.exc # "pending" /\ Len(ValidPart(stored)) >= 2) =>
        /\ aout.exc = "none"
        /\ aout.wrote
        /\ aout.events = BuildEvents(load_snapshots(ValidPart(stored)))

\* C18: token monotonicity between extractor and engine. Of any two snapshots
\* of an analyze run, the one load_snapshots orders first carries the token
\* that is strictly less under the comparison of the engine's watermark
\* filter, so that an event of the later one passes a watermark set by the
\* earlier one.
C18_TokenMonotone ==
    \A j, k \in 1..Len(analyzed) :
        j < k =>
            /\ StrLess(analyzed[j].time, analyzed[k].time)
            /\ \A e \in Events : e.time = analyzed[k].time =>
                                    PassesFilter(e, analyzed[j].time)

\* the path lies in the OS directory: below WINDOWS_DIR
InOsDir(p) == StartsWith(LowerPath(p), WINDOWS_DIR \o <<Sep>>)

\* the file name of a path: what follows its last separator
FileName(p) ==
    LET last == CHOOSE j \in 1..Len(p) :
                    p[j] = Sep /\ \A k \in (j + 1)..Len(p) : p[k] # Sep
    IN SubSeq(p, last + 1, Len(p))

\* the module is user32.dll
IsUser32(m) == FileName(LowerPath(m)) = <<"user32", ".dll">>

\* the loaded .dll files outside the OS directory
OutsideDlls(proc) ==
    {m \in proc.maps : EndsWith(LowerPath(m), <<".dll">>) /\ ~InOsDir(m)}

\* what the scan is to report for a process whose exe and create_time are
\* resolved and whose modules can be enumerated
Classification(proc) ==
    IF \/ Lower(PathBasename(proc.exe)) \in ALLOWLIST
       \/ ~\E m \in proc.maps : IsUser32(m)
    THEN << >>
    ELSE IF OutsideDlls(proc) # {}
    THEN <<SuspectEntry(proc, "DLL_HOOK_SUSPECT", OutsideDlls(proc))>>
    ELSE IF ~InOsDir(proc.exe)
    THEN <<SuspectEntry(proc, "EXE_HOOK_SUSPECT", {})>>
    ELSE << >>

RECURSIVE Classifications(_)
Classifications(procs) ==
    IF procs = << >> THEN << >>
    ELSE Classification(Head(procs)) \o Classifications(Tail(procs))

\* C19: scanner classification. For processes whose executable path and
\* create_time are resolvable and whose enumeration succeeds, the scan reports
\* a process iff its base name is not allowlisted, one of its modules is
\* user32.dll, and either some loaded .dll lies outside the OS directory (type
\* DLL_HOOK_SUSPECT with exactly those modules) or there is none and the
\* executable lies outside the OS directory (type EXE_HOOK_SUSPECT); an
\* OS-directory executable with only OS-directory modules is not reported.
C19_ScannerClassification ==
    (/\ report.done
     /\ \A j \in 1..Len(system) :
            /\ system[j].exe # << >>
            /\ system[j].create_time # 0
            /\ ~system[j].denied) =>
        report.suspects = Classifications(system)

(***************************************************************************)
(* C21: concurrent updates are serializable.  When two calls of            *)
(* update_temporal_risk that were handed different sets of new events      *)
(* (every event newer than the initial watermark) have both loaded the     *)
(* state before either saved, then once both have saved the persisted      *)
(* state is the one that running the two calls one after the other, in one *)
(* of the two orders, leaves.                                              *)
(***************************************************************************)
NewBatch(L) ==
    /\ Len(L) > 0
    /\ \A j \in 1..Len(L) : PassesFilter(L[j], initial.meta)

Overlapped == \A c \in Callers : invocation[c].pc = "done" /\ invocation[c].seen = 0

Serial(a, b) ==
    RunUpdate(RunUpdate(initial, invocation[a].events), invocation[b].events)

C21_Serializable ==
    (/\ Overlapped
     /\ \A c \in Callers : NewBatch(invocation[c].events)
     /\ {invocation[1].events[j] : j \in 1..Len(invocation[1].events)}
            # {invocation[2].events[j] : j \in 1..Len(invocation[2].events)})
    => persisted.st \in {Serial(1, 2), Serial(2, 1)}

\* the position, in load order, of the snapshot a token names
PositionOf(token) == CHOOSE j \in 1..Len(analyzed) : analyzed[j].time = token

\* the positions of out before q that hold an event of the same identity
EarlierOf(q) == {p \in 1..(q - 1) : out[p].identity = out[q].identity}

\* the dict of an engine that started from the empty state, after the ingest
\* loop has consumed the events of out before position q
EngineBefore(q) == IngestAll(EmptyState.procs, SubSeq(out, 1, q - 1), 1, EmptyState.meta)

\* C22: per-identity event order. In the events of one analyze run the events
\* of each identity are contiguous, the first of them is the identity's
\* SUSPECT_DETECTED and no later one is, and they follow the load order of
\* the snapshots their tokens name; hence an engine that starts from the
\* empty state and ingests the list has counted an identity's
\* SUSPECT_DETECTED before it applies any HOOK_APPEARED or NEW_HOOK_MODULE of
\* that identity.
C22_PerIdentityOrder ==
    \A q \in 1..Len(out) :
        /\ \A p \in EarlierOf(q) :
              /\ \A m \in p..q : out[m].identity = out[q].identity
              /\ PositionOf(out[p].time) <= PositionOf(out[q].time)
        /\ (out[q].event = "SUSPECT_DETECTED") = (EarlierOf(q) = {})
        /\ IsGated(out[q].event) =>
              /\ PassesFilter(out[q], EmptyState.meta)
              /\ out[q].identity \in DOMAIN EngineBefore(q)
              /\ EngineBefore(q)[out[q].identity].event_counts["SUSPECT_DETECTED"] > 0

\* C22 witness: two identities are first observed in the same snapshot and
\* the first of them gains a module in the next one; its HOOK_APPEARED and
\* NEW_HOOK_MODULE, of the later token, stand before the second identity's
\* SUSPECT_DETECTED, of the earlier token.
C22_Witness ==
    /\ Len(analyzed) = 2
    /\ Len(out) = 4
    /\ out[1].event = "SUSPECT_DETECTED" /\ out[1].identity = EvilId
    /\ out[2].event = "HOOK_APPEARED" /\ out[2].identity = EvilId
    /\ out[3].event = "NEW_HOOK_MODULE" /\ out[3].identity = EvilId
    /\ out[4].event = "SUSPECT_DETECTED" /\ out[4].identity = ChromeId
    /\ out[1].time = analyzed[1].time /\ out[4].time = analyzed[1].time
    /\ out[2].time = analyzed[2].time
    /\ EngineBefore(2)[EvilId].event_counts["SUSPECT_DETECTED"] = 1

\* the event out holds at position q is of this kind, identity and token
EventAt(q, kind, i, token) ==
    /\ q <= Len(out)
    /\ out[q].event = kind /\ out[q].identity = i /\ out[q].time = token

\* C23: HOOK_APPEARED never occurs alone. Every HOOK_APPEARED in the events
\* of an analyze run is followed at once by a NEW_HOOK_MODULE of the same
\* identity and token, and the transition's block ends there, with no
\* HOOK_REMOVED of that identity and token behind it; so an engine that
\* ingests the list from the empty state raises the score of an identity
\* that is not allowlisted by the weights of both kinds over the two events.
C23_HookAppearedNeverAlone ==
    \A q \in 1..Len(out) :
        out[q].event = "HOOK_APPEARED" =>
            LET i == out[q].identity
                t == out[q].time
            IN /\ EventAt(q + 1, "NEW_HOOK_MODULE", i, t)
               /\ ~EventAt(q + 2, "HOOK_REMOVED", i, t)
               /\ ~IsAllowlisted(out[q].exe) =>
                     ScoreIn(EngineBefore(q + 2), i) =
                        ScoreIn(EngineBefore(q), i)
                            + EVENT_WEIGHTS["HOOK_APPEARED"]
                            + EVENT_WEIGHTS["NEW_HOOK_MODULE"]

\* C23 witness: an identity that is not allowlisted goes from no module to
\* two modules and then loses one; the events are its SUSPECT_DETECTED, the
\* pair HOOK_APPEARED and NEW_HOOK_MODULE of the second token, and the
\* HOOK_REMOVED of the third; the pair lifts the score from the baseline's
\* weight by both weights.
C23_Witness ==
    /\ Len(analyzed) = 3
    /\ Len(out) = 4
    /\ out[1].event = "SUSPECT_DETECTED" /\ out[1].identity = EvilId
    /\ EventAt(2, "HOOK_APPEARED", EvilId, analyzed[2].time)
    /\ EventAt(3, "NEW_HOOK_MODULE", EvilId, analyzed[2].time)
    /\ EventAt(4, "HOOK_REMOVED", EvilId, analyzed[3].time)
    /\ ~IsAllowlisted(out[2].exe)
    /\ ScoreIn(EngineBefore(2), EvilId) = EVENT_WEIGHTS["SUSPECT_DETECTED"]
    /\ ScoreIn(EngineBefore(4), EvilId) =
          EVENT_WEIGHTS["SUSPECT_DETECTED"] + EVENT_WEIGHTS["HOOK_APPEARED"]
              + EVENT_WEIGHTS["NEW_HOOK_MODULE"]

====
